---- MODULE Spec2Model ----
(***************************************************************************)
(* A model of jsonweb/decode.py: the registry of object handlers           *)
(* (_ObjectHandlers), the handler generated from a class's __init__        *)
(* signature (get_arg_spec, get_jsonweb_handler, JsonWebObjectHandler),    *)
(* the per-object dispatcher (ObjectHook.decode_obj), the per-call         *)
(* resolution of handlers (object_hook), loader, and the timestamp helper  *)
(* ObjectHook._datetime.                                                   *)
(*                                                                         *)
(* Python values are tagged records, so that any two of them compare.      *)
(***************************************************************************)
EXTENDS Integers, Sequences, FiniteSets, TLC

VARIABLES
    heap,   \* registry object id -> its __handlers dict (0: _default_object_handlers)
    last,   \* the last call made: its arguments, its outcome, what it observed
    copies, \* the ids of the registries the caller got from copy()
    hook    \* the callable the caller keeps from object_hook(), None before

vars == <<heap, last, copies, hook>>

---------------------------------------------------------------------------
(* Python values *)

NoneV == [k |-> "none"]
Str(s) == [k |-> "str", v |-> s]
Dict(f) == [k |-> "dict", v |-> f]
List(s) == [k |-> "list", v |-> s]
Class(n) == [k |-> "class", name |-> n]
Func(n) == [k |-> "function", name |-> n]
Schema(n) == [k |-> "schema", name |-> n]
Instance(c, a) == [k |-> "inst", cls |-> c, attrs |-> a]

\* Python truth of the values the registry holds: None and empty containers are false
Truthy(v) ==
    CASE v.k = "none" -> FALSE
      [] v.k = "str" -> v.v # ""
      [] v.k = "dict" -> DOMAIN v.v # {}
      [] v.k = "list" -> Len(v.v) > 0
      [] OTHER -> TRUE

\* a or b
Or(a, b) == IF Truthy(a) THEN a ELSE b

\* the outcome of a call: a returned value or a raised exception
Ok(v) == [st |-> "ok", val |-> v]
Raise(e) == [st |-> "raise", exc |-> e]

EmptyMap == <<>>

\* d with d[key] = v
Put(d, key, v) == [x \in DOMAIN d \cup {key} |-> IF x = key THEN v ELSE d[x]]

\* d without key
Del(d, key) == [x \in DOMAIN d \ {key} |-> d[x]]

---------------------------------------------------------------------------
(* Exceptions *)

KeyError(key) == [type |-> "KeyError", key |-> key]
TypeError(msg) == [type |-> "TypeError", msg |-> msg]
ValidationError(msg) == [type |-> "ValidationError", msg |-> msg]
ValueError(msg) == [type |-> "ValueError", msg |-> msg]
AttributeError(msg) == [type |-> "AttributeError", msg |-> msg]

JsonWebError(msg) ==
    [type |-> "JsonWebError", msg |-> msg]

ObjectAttributeError(obj_type, attr) ==
    [type |-> "ObjectAttributeError", kind |-> "DATA_DECODE_ERROR",
     sub |-> "MISSING_ATTRIBUTE", obj_type |-> obj_type, attribute |-> attr]

ObjectNotFoundError(obj_type) ==
    [type |-> "ObjectNotFoundError", kind |-> "DATA_DECODE_ERROR",
     sub |-> "OBJECT_NOT_FOUND", obj_type |-> obj_type]

---------------------------------------------------------------------------
(* Classes being decoded: the signature of each one's __init__, as          *)
(* inspect.getargspec reports it. Each __init__ stores every argument under *)
(* the parameter's name.                                                    *)

\* class Person: def __init__(self, first_name, last_name, gender=None)
PersonInit ==
    [args |-> <<"self", "first_name", "last_name", "gender">>,
     defaults |-> <<NoneV>>, varargs |-> FALSE]

\* class Team: def __init__(self, leader, name="anon", mascot=None)
TeamInit ==
    [args |-> <<"self", "leader", "name", "mascot">>,
     defaults |-> <<Str("anon"), NoneV>>, varargs |-> FALSE]

\* class Args: def __init__(self, *args)
ArgsInit ==
    [args |-> <<"self">>, defaults |-> <<>>, varargs |-> TRUE]

ClassNames == {"Person", "Team", "Args"}

ClassInit(name) ==
    CASE name = "Person" -> PersonInit
      [] name = "Team" -> TeamInit
      [] name = "Args" -> ArgsInit

\* the index of name in the sequence s, 0 when it is not there
IndexOf(s, name) ==
    IF \E i \in 1..Len(s) : s[i] = name
    THEN CHOOSE i \in 1..Len(s) : s[i] = name /\ \A j \in 1..(i - 1) : s[j] # name
    ELSE 0

\* Python's binding of the arguments of a call to the parameters params of
\* __init__ (self left out), the last Len(defaults) of them having defaults;
\* then the instance, holding each argument under its parameter's name
Bind(cls, params, defaults, varargs, cls_args, cls_kw_args) ==
    LET np == Len(params)
        nd == Len(defaults)
        npos == IF Len(cls_args) < np THEN Len(cls_args) ELSE np
        bound == {params[i] : i \in 1..npos}
        hasDefault == {params[i] : i \in (np - nd + 1)..np}
        attrs == [p \in {params[i] : i \in 1..np} |->
                    IF p \in bound THEN cls_args[IndexOf(params, p)]
                    ELSE IF p \in DOMAIN cls_kw_args THEN cls_kw_args[p]
                    ELSE defaults[IndexOf(params, p) - (np - nd)]]
    IN  IF Len(cls_args) > np /\ ~varargs
        THEN Raise(TypeError("__init__() takes fewer arguments"))
        ELSE IF \E key \in DOMAIN cls_kw_args : key \in bound
        THEN Raise(TypeError("__init__() got multiple values for keyword argument"))
        ELSE IF \E key \in DOMAIN cls_kw_args : IndexOf(params, key) = 0
        THEN Raise(TypeError("__init__() got an unexpected keyword argument"))
        ELSE IF \E i \in 1..np :
                    params[i] \notin bound \cup DOMAIN cls_kw_args \cup hasDefault
        THEN Raise(TypeError("__init__() takes more arguments"))
        ELSE IF varargs
        THEN Ok(Instance(cls.name,
                Put(attrs, "args", List(SubSeq(cls_args, np + 1, Len(cls_args))))))
        ELSE Ok(Instance(cls.name, attrs))

\* cls(*cls_args, **cls_kw_args)
Construct(cls, cls_args, cls_kw_args) ==
    Bind(cls, Tail(ClassInit(cls.name).args), ClassInit(cls.name).defaults,
         ClassInit(cls.name).varargs, cls_args, cls_kw_args)

---------------------------------------------------------------------------
(* The handler generated from a class's __init__ *)

\* get_arg_spec pairing the arguments popped with the defaults in their own order
ArgSpecOf_forward(args, defaults) ==
    IF Len(args) = 0
    THEN NoneV
    ELSE [k |-> "argspec",
          args |-> SubSeq(args, 1, Len(args) - Len(defaults)),
          kw_args |-> [i \in 1..Len(defaults) |->
                          <<args[Len(args) - i + 1], defaults[i]>>]]

\* get_arg_spec, once "self" is deleted: None, or (args, kw_args), each
\* default paired with the argument popped for it, last first
ArgSpecOf(args, defaults) ==
    IF Len(args) = 0
    THEN NoneV
    ELSE [k |-> "argspec",
          args |-> SubSeq(args, 1, Len(args) - Len(defaults)),
          kw_args |-> [i \in 1..Len(defaults) |->
                          <<args[Len(args) - i + 1],
                            defaults[Len(defaults) - i + 1]>>]]

\* get_arg_spec(func)
get_arg_spec(func) ==
    IF Len(func.args) > 0 /\ func.args[1] = "self"
    THEN ArgSpecOf(Tail(func.args), func.defaults)
    ELSE ArgSpecOf(func.args, func.defaults)

\* JsonWebObjectHandler(args, kw_args)
JsonWebObjectHandler(args, kw_args) ==
    [k |-> "JsonWebObjectHandler", args |-> args, kw_args |-> kw_args]

\* get_jsonweb_handler giving a handler of no argument when there is no arg_spec
HandlerFrom_empty(arg_spec) ==
    IF arg_spec = NoneV
    THEN Ok(JsonWebObjectHandler(<<>>, NoneV))
    ELSE Ok(JsonWebObjectHandler(arg_spec.args, Or(List(arg_spec.kw_args), NoneV)))

\* get_jsonweb_handler, given the arg_spec of cls.__init__
HandlerFrom(arg_spec) ==
    IF arg_spec = NoneV
    THEN Raise(JsonWebError("Unable to generate an object_hook handler"))
    ELSE Ok(JsonWebObjectHandler(arg_spec.args, Or(List(arg_spec.kw_args), NoneV)))

\* get_jsonweb_handler(cls): raises when __init__ names no parameter
get_jsonweb_handler(cls) ==
    HandlerFrom(get_arg_spec(ClassInit(cls.name)))

\* the keyword arguments JsonWebObjectHandler.__call__ collects from kw_args:
\* obj.get(key, default) for each (key, default)
KwArgs(kw, obj) ==
    [key \in {kw[i][1] : i \in 1..Len(kw)} |->
        IF key \in DOMAIN obj.v
        THEN obj.v[key]
        ELSE kw[IndexOf([i \in 1..Len(kw) |-> kw[i][1]], key)][2]]

\* JsonWebObjectHandler.__call__ reporting the last absent argument, not the first
JsonWebObjectHandlerCall_last(self, cls, obj) ==
    LET missing == {i \in 1..Len(self.args) : self.args[i] \notin DOMAIN obj.v}
    IN  IF missing # {}
        THEN Raise(KeyError(self.args[CHOOSE i \in missing : \A j \in missing : i >= j]))
        ELSE Construct(cls,
                       [i \in 1..Len(self.args) |-> obj.v[self.args[i]]],
                       IF Truthy(self.kw_args) THEN KwArgs(self.kw_args.v, obj)
                       ELSE EmptyMap)

\* JsonWebObjectHandler.__call__(cls, obj)
JsonWebObjectHandlerCall(self, cls, obj) ==
    LET missing == {i \in 1..Len(self.args) : self.args[i] \notin DOMAIN obj.v}
    IN  IF missing # {}
        THEN Raise(KeyError(self.args[CHOOSE i \in missing : \A j \in missing : i <= j]))
        ELSE Construct(cls,
                       [i \in 1..Len(self.args) |-> obj.v[self.args[i]]],
                       IF Truthy(self.kw_args) THEN KwArgs(self.kw_args.v, obj)
                       ELSE EmptyMap)

\* def person_decoder(cls, obj): return cls(obj["first_name"], obj["last_name"])
person_decoder(cls, obj) ==
    IF "first_name" \notin DOMAIN obj.v THEN Raise(KeyError("first_name"))
    ELSE IF "last_name" \notin DOMAIN obj.v THEN Raise(KeyError("last_name"))
    ELSE Construct(cls, <<obj.v["first_name"], obj.v["last_name"]>>, EmptyMap)

\* GENDERS = {"m": "male", "f": "female"}
Genders == [m |-> Str("male"), f |-> Str("female")]

\* def coded_decoder(cls, obj):
\*     return cls(obj["first_name"], obj["last_name"], GENDERS[obj["gender"]])
coded_decoder(cls, obj) ==
    IF "first_name" \notin DOMAIN obj.v THEN Raise(KeyError("first_name"))
    ELSE IF "last_name" \notin DOMAIN obj.v THEN Raise(KeyError("last_name"))
    ELSE IF "gender" \notin DOMAIN obj.v THEN Raise(KeyError("gender"))
    ELSE IF obj.v["gender"].k # "str" THEN Raise(KeyError("<value>"))
    ELSE IF obj.v["gender"].v \notin DOMAIN Genders
    THEN Raise(KeyError(obj.v["gender"].v))
    ELSE Construct(cls, <<obj.v["first_name"], obj.v["last_name"],
                          Genders[obj.v["gender"].v]>>, EmptyMap)

\* factory(cls, obj), for the handlers an entry can hold
CallHandler(factory, cls, obj) ==
    CASE factory.k = "JsonWebObjectHandler" -> JsonWebObjectHandlerCall(factory, cls, obj)
      [] factory.k = "function" /\ factory.name = "person_decoder" ->
            person_decoder(cls, obj)
      [] factory.k = "function" /\ factory.name = "coded_decoder" ->
            coded_decoder(cls, obj)
      [] OTHER -> Raise(TypeError("object is not callable"))

---------------------------------------------------------------------------
(* _ObjectHandlers: the registry. Its __handlers dict is a function from    *)
(* type names to handler tuples <<handler, cls, schema>>; the registry      *)
(* objects live in the heap, by id.                                         *)

DefaultId == 0   \* _default_object_handlers
HookId == 1      \* the registry object_hook allocates when given handlers

\* add_handler keeping the schema of the entry it replaces when given none
add_handler_keeps_schema(handlers, cls, handler, type_name, schema) ==
    Put(handlers, Or(type_name, Str(cls.name)).v,
        <<handler, cls,
          IF Or(type_name, Str(cls.name)).v \in DOMAIN handlers
          THEN Or(schema, handlers[Or(type_name, Str(cls.name)).v][3])
          ELSE schema>>)

\* _ObjectHandlers.add_handler(cls, handler, type_name=None, schema=None)
add_handler(handlers, cls, handler, type_name, schema) ==
    Put(handlers, Or(type_name, Str(cls.name)).v, <<handler, cls, schema>>)

\* _ObjectHandlers.get(name): the handler tuple, or None
get(handlers, name) ==
    IF name \in DOMAIN handlers THEN handlers[name] ELSE NoneV

\* _ObjectHandlers.set(name, handler_tuple)
set(handlers, name, handler_tuple) ==
    Put(handlers, name, handler_tuple)

\* _ObjectHandlers.clear()
clear(handlers) == EmptyMap

\* update_handler storing its arguments as they are
update_handler_replaces(handlers, name, cls, handler, schema) ==
    IF name \notin DOMAIN handlers
    THEN [res |-> Raise(KeyError(name)), handlers |-> handlers]
    ELSE [res |-> Ok(NoneV),
          handlers |-> set(handlers, name, <<handler, cls, schema>>)]

\* _ObjectHandlers.update_handler(name, cls=None, handler=None, schema=None):
\* the outcome and the __handlers after it
update_handler(handlers, name, cls, handler, schema) ==
    IF name \notin DOMAIN handlers
    THEN [res |-> Raise(KeyError(name)), handlers |-> handlers]
    ELSE [res |-> Ok(NoneV),
          handlers |-> set(handlers, name,
                           <<Or(handler, handlers[name][1]),
                             Or(cls, handlers[name][2]),
                             Or(schema, handlers[name][3])>>)]

\* copy() returning the registry itself
copy_shared(hp, self, new) ==
    [heap |-> hp, id |-> self]

\* _ObjectHandlers.copy(), the new registry object allocated at id new:
\* the heap after it and the id returned
copy(hp, self, new) ==
    [heap |-> [hp EXCEPT ![new] = [n \in DOMAIN hp[self] |-> hp[self][n]]],
     id |-> new]

---------------------------------------------------------------------------
(* Schemas: jsonweb.schema is outside this file; a schema is what           *)
(* schema().validate(obj) does.                                             *)

\* class PersonSchema(ObjectSchema): first_name = String(); last_name = String();
\* gender = String(optional=True)
PersonSchemaValidate(obj) ==
    IF \E f \in {"first_name", "last_name"} :
           f \notin DOMAIN obj.v \/ obj.v[f].k # "str"
    THEN Raise(ValidationError("Error validating object."))
    ELSE IF "gender" \in DOMAIN obj.v /\ obj.v["gender"].k # "str"
    THEN Raise(ValidationError("Error validating object."))
    ELSE Ok(obj)

\* class StrictSchema(object):
\*     def validate(self, obj): obj["first_name"]; obj["last_name"]; return obj
StrictSchemaValidate(obj) ==
    IF "first_name" \notin DOMAIN obj.v THEN Raise(KeyError("first_name"))
    ELSE IF "last_name" \notin DOMAIN obj.v THEN Raise(KeyError("last_name"))
    ELSE Ok(obj)

\* schema().validate(obj)
Validate(schema, obj) ==
    CASE schema.name = "PersonSchema" -> PersonSchemaValidate(obj)
      [] schema.name = "StrictSchema" -> StrictSchemaValidate(obj)

---------------------------------------------------------------------------
(* ObjectHook.decode_obj and the callable object_hook returns. Each returns *)
(* the outcome and the events of the call, in order.                        *)

Out(res, ev) == [res |-> res, ev |-> ev]

\* decode_obj: the except clause around factory(cls, obj)
Wrapped(obj_type, made, ev) ==
    IF made.st = "raise" /\ made.exc.type = "KeyError"
    THEN Out(Raise(ObjectAttributeError(obj_type, made.exc.key)), ev)
    ELSE Out(made, ev)

\* decode_obj with the validation inside the try
Build_wraps_validation(entry, obj_type, valid, ev) ==
    IF valid.st = "raise"
    THEN Wrapped(obj_type, valid, ev)
    ELSE Wrapped(obj_type,
                 CallHandler(entry[1], entry[2], valid.val),
                 ev \o <<[ev |-> "factory", factory |-> entry[1], cls |-> entry[2],
                          obj |-> valid.val, obj_type |-> obj_type]>>)

\* decode_obj, once the schema has validated: valid is what validate gave
Build(entry, obj_type, valid, ev) ==
    IF valid.st = "raise"
    THEN Out(valid, ev)
    ELSE Wrapped(obj_type,
                 CallHandler(entry[1], entry[2], valid.val),
                 ev \o <<[ev |-> "factory", factory |-> entry[1], cls |-> entry[2],
                          obj |-> valid.val, obj_type |-> obj_type]>>)

\* decode_obj, once the handler tuple entry is found
Found(entry, obj, obj_type) ==
    IF Truthy(entry[3])
    THEN Build(entry, obj_type, Validate(entry[3], obj),
               <<[ev |-> "typed", obj |-> obj],
                 [ev |-> "validate", schema |-> entry[3], obj |-> obj]>>)
    ELSE Build(entry, obj_type, Ok(obj), <<[ev |-> "typed", obj |-> obj]>>)

\* the lookup through get(): an unknown type leaves the object as it is
Lookup_passthrough(handlers, obj, obj_type) ==
    IF obj_type.k \in {"dict", "list"}
    THEN Out(Raise(TypeError("unhashable type")), <<[ev |-> "typed", obj |-> obj]>>)
    ELSE IF obj_type.k # "str" \/ obj_type.v \notin DOMAIN handlers
    THEN Out(Ok(obj), <<[ev |-> "typed", obj |-> obj]>>)
    ELSE Found(handlers[obj_type.v], obj, obj_type)

\* decode_obj: the lookup of obj_type in self.handlers
Lookup(handlers, obj, obj_type) ==
    IF obj_type.k \in {"dict", "list"}
    THEN Out(Raise(TypeError("unhashable type")), <<[ev |-> "typed", obj |-> obj]>>)
    ELSE IF obj_type.k # "str" \/ obj_type.v \notin DOMAIN handlers
    THEN Out(Raise(ObjectNotFoundError(obj_type)), <<[ev |-> "typed", obj |-> obj]>>)
    ELSE Found(handlers[obj_type.v], obj, obj_type)

\* decode_obj looking obj.get("__type__") up whether the key is there or not
decode_obj_always_looks_up(handlers, obj) ==
    IF "__type__" \notin DOMAIN obj.v
    THEN Lookup(handlers, obj, NoneV)
    ELSE Lookup(handlers, obj, obj.v["__type__"])

\* ObjectHook.decode_obj(obj), self.handlers being handlers
decode_obj(handlers, obj) ==
    IF "__type__" \notin DOMAIN obj.v
    THEN Out(Ok(obj), <<[ev |-> "plain", obj |-> obj]>>)
    ELSE Lookup(handlers, obj, obj.v["__type__"])

\* handler(obj) with obj.setdefault("__type__", as_type)
handler_keeps_type(handlers, as_type, obj) ==
    IF Truthy(as_type) /\ "__type__" \notin DOMAIN obj.v
    THEN decode_obj(handlers, Dict(Put(obj.v, "__type__", as_type)))
    ELSE decode_obj(handlers, obj)

\* handler(obj) leaving as_type out
handler_ignores_as_type(handlers, as_type, obj) ==
    decode_obj(handlers, obj)

\* handler(obj), the function object_hook(handlers, as_type) returns
handler(handlers, as_type, obj) ==
    IF Truthy(as_type)
    THEN decode_obj(handlers, Dict(Put(obj.v, "__type__", as_type)))
    ELSE decode_obj(handlers, obj)

---------------------------------------------------------------------------
(* ObjectHook._datetime. The text given to it is a str whose v is the       *)
(* sequence of its characters.                                              *)

\* _DATETIME_FORMAT = "%Y-%m-%dT%H:%M:%S": what stands between the fields
Separators == <<"-", "-", "T", ":", ":">>

Digits == <<"0", "1", "2", "3", "4", "5", "6", "7", "8", "9">>

IsNumber(f) == \A i \in 1..Len(f) : IndexOf(Digits, f[i]) # 0

RECURSIVE Num(_), Fields(_, _)

\* the number the digits f write
Num(f) ==
    IF Len(f) = 0 THEN 0
    ELSE 10 * Num(SubSeq(f, 1, Len(f) - 1)) + (IndexOf(Digits, f[Len(f)]) - 1)

\* the text cut at each separator in turn; fewer fields when one is not there
Fields(chars, seps) ==
    IF Len(seps) = 0 THEN <<chars>>
    ELSE IF IndexOf(chars, seps[1]) = 0 THEN <<>>
    ELSE <<SubSeq(chars, 1, IndexOf(chars, seps[1]) - 1)>>
            \o Fields(SubSeq(chars, IndexOf(chars, seps[1]) + 1, Len(chars)), Tail(seps))

\* the days of month m of year y
DaysIn(y, m) ==
    IF m = 2
    THEN (IF y % 4 = 0 /\ (y % 100 # 0 \/ y % 400 = 0) THEN 29 ELSE 28)
    ELSE IF m \in {4, 6, 9, 11} THEN 30 ELSE 31

\* datetime(y, m, d, H, M, S) from the numbers the format's fields matched
DatetimeOf(y, m, d, H, M, S) ==
    IF m \notin 1..12 \/ d \notin 1..31 \/ H > 23 \/ M > 59 \/ S > 61
    THEN Raise(ValueError("time data does not match format"))
    ELSE IF y < 1 \/ d > DaysIn(y, m) \/ S > 59
    THEN Raise(ValueError("value is out of range"))
    ELSE Ok([k |-> "datetime", year |-> y, month |-> m, day |-> d,
             hour |-> H, minute |-> M, second |-> S])

\* the six fields matched against %Y, %m, %d, %H, %M, %S
Matched(f) ==
    IF \/ Len(f) # 6
       \/ \E i \in 1..Len(f) : ~IsNumber(f[i]) \/ Len(f[i]) = 0
       \/ Len(f[1]) # 4
       \/ \E i \in 2..Len(f) : Len(f[i]) > 2
    THEN Raise(ValueError("time data does not match format"))
    ELSE DatetimeOf(Num(f[1]), Num(f[2]), Num(f[3]), Num(f[4]), Num(f[5]), Num(f[6]))

\* datetime.strptime(dt, self._DT_FORMAT)
strptime(dt) ==
    IF dt.k # "str"
    THEN Raise(TypeError("must be string"))
    ELSE Matched(Fields(dt.v, Separators))

\* _datetime: the except clauses. Building ObjectDecodeError's message reads
\* self.obj, which ObjectHook does not have; ObjectDecodeError(message) lacks
\* the error_sub_type its __init__ requires
Excepted(parsed) ==
    IF parsed.st = "raise" /\ parsed.exc.type = "TypeError"
    THEN Raise(AttributeError("'ObjectHook' object has no attribute 'obj'"))
    ELSE IF parsed.st = "raise" /\ parsed.exc.type = "ValueError"
    THEN Raise(TypeError("__init__() takes at least 3 arguments (2 given)"))
    ELSE parsed

\* ObjectHook._datetime(dt)
_datetime(dt) ==
    IF dt = NoneV THEN Ok(NoneV) ELSE Excepted(strptime(dt))

---------------------------------------------------------------------------
(* json.loads(json_str, object_hook=hook): the parsed document is a tree    *)
(* of objects [k |-> "obj", m |-> its members in the text's order, each     *)
(* <<key, value>>], arrays (lists) and scalars; the hook is called on each  *)
(* object once its members are decoded.                                     *)

Obj(m) == [k |-> "obj", m |-> m]

\* the events ev, then the call r
Then(ev, r) == Out(r.res, ev \o r.ev)

\* the object whose members decoded to ms: the hook's value for it
Hooked(ms, handlers, as_type) ==
    IF ms.res.st = "raise" THEN ms
    ELSE Then(ms.ev, handler(handlers, as_type, Dict(ms.res.val)))

\* the array whose items decoded to xs
Listed(xs) ==
    IF xs.res.st = "raise" THEN xs ELSE Out(Ok(List(xs.res.val)), xs.ev)

\* the members decoded so far, and the member key decoded to x
WithMember(before, key, x) ==
    IF x.res.st = "raise" THEN Then(before.ev, x)
    ELSE Out(Ok(Put(before.res.val, key, x.res.val)), before.ev \o x.ev)

\* the items decoded so far, and the next decoded to x
WithItem(before, x) ==
    IF x.res.st = "raise" THEN Then(before.ev, x)
    ELSE Out(Ok(Append(before.res.val, x.res.val)), before.ev \o x.ev)

RECURSIVE loads(_, _, _), LoadMembers(_, _, _), LoadItems(_, _, _)

RECURSIVE Raw(_)

\* the document as json.loads gives it with no object_hook
Raw(doc) ==
    CASE doc.k = "obj" ->
            Dict([key \in {doc.m[i][1] : i \in 1..Len(doc.m)} |->
                    Raw(doc.m[CHOOSE i \in 1..Len(doc.m) :
                                  /\ doc.m[i][1] = key
                                  /\ \A j \in (i + 1)..Len(doc.m) : doc.m[j][1] # key][2])])
      [] doc.k = "list" -> List([i \in 1..Len(doc.v) |-> Raw(doc.v[i])])
      [] OTHER -> doc

\* the hook called on the enclosing object only: its members stay as parsed
NextMember_raw(before, member, handlers, as_type) ==
    IF before.res.st = "raise" THEN before
    ELSE WithMember(before, member[1], Out(Ok(Raw(member[2])), <<>>))

\* the next member of an object: its value decoded before the object is
NextMember(before, member, handlers, as_type) ==
    IF before.res.st = "raise" THEN before
    ELSE WithMember(before, member[1], loads(member[2], handlers, as_type))

\* the next item of an array
NextItem(before, item, handlers, as_type) ==
    IF before.res.st = "raise" THEN before
    ELSE WithItem(before, loads(item, handlers, as_type))

loads(doc, handlers, as_type) ==
    CASE doc.k = "obj" -> Hooked(LoadMembers(doc.m, handlers, as_type), handlers, as_type)
      [] doc.k = "list" -> Listed(LoadItems(doc.v, handlers, as_type))
      [] OTHER -> Out(Ok(doc), <<>>)

LoadMembers(m, handlers, as_type) ==
    IF Len(m) = 0 THEN Out(Ok(EmptyMap), <<>>)
    ELSE NextMember(LoadMembers(SubSeq(m, 1, Len(m) - 1), handlers, as_type),
                    m[Len(m)], handlers, as_type)

LoadItems(s, handlers, as_type) ==
    IF Len(s) = 0 THEN Out(Ok(<<>>), <<>>)
    ELSE NextItem(LoadItems(SubSeq(s, 1, Len(s) - 1), handlers, as_type),
                  s[Len(s)], handlers, as_type)

---------------------------------------------------------------------------
(* object_hook(handlers, as_type). handlers is None or a dict, here the     *)
(* list of its items <<name, handler_dict>> in the order iteritems() gives  *)
(* them; a handler_dict is a function from "cls", "handler", "schema".      *)

\* the keyword argument key of **handler_dict, None when it is not passed
Kw(handler_dict, key) ==
    IF key \in DOMAIN handler_dict THEN handler_dict[key] ELSE NoneV

\* what one turn of the loop leaves: the outcome, the registry, the handler_dict
Turn(res, registry, handler_dict) ==
    [res |-> res, registry |-> registry, handler_dict |-> handler_dict]

\* _object_handlers.update_handler(name, **handler_dict), u being its result
Updated(u, handler_dict) == Turn(u.res, u.handlers, handler_dict)

\* _object_handlers.add_handler(cls, **rest), cls popped from the handler_dict
Added(registry, cls, rest) ==
    IF "handler" \notin DOMAIN rest
    THEN Turn(Raise(TypeError("add_handler() takes at least 3 arguments")),
              registry, rest)
    ELSE Turn(Ok(NoneV),
              add_handler(registry, cls, rest["handler"], NoneV, Kw(rest, "schema")),
              rest)

\* one turn of the loop over handlers.iteritems()
ApplyHandler(registry, name, handler_dict) ==
    IF name \in DOMAIN registry
    THEN Updated(update_handler(registry, name, Kw(handler_dict, "cls"),
                                Kw(handler_dict, "handler"),
                                Kw(handler_dict, "schema")),
                 handler_dict)
    ELSE IF "cls" \notin DOMAIN handler_dict
    THEN Turn(Raise(KeyError("cls")), registry, handler_dict)
    ELSE Added(registry, handler_dict["cls"], Del(handler_dict, "cls"))

\* the loop so far, and its turn a on item n
AfterTurn(before, n, a) ==
    [res |-> a.res, registry |-> a.registry,
     items |-> [before.items EXCEPT ![n] = <<before.items[n][1], a.handler_dict>>]]

\* the loop so far, and item n
NextTurn(before, n) ==
    IF before.res.st = "raise" THEN before
    ELSE AfterTurn(before, n,
                   ApplyHandler(before.registry, before.items[n][1],
                                before.items[n][2]))

RECURSIVE ApplyHandlers(_, _, _)

\* the loop over the first n items: the outcome, the registry and the items after it
ApplyHandlers(registry, items, n) ==
    IF n = 0 THEN [res |-> Ok(NoneV), registry |-> registry, items |-> items]
    ELSE NextTurn(ApplyHandlers(registry, items, n - 1), n)

\* object_hook, after the loop a ran on the copy c
Resolved(c, a, as_type) ==
    [res |-> IF a.res.st = "raise" THEN a.res
             ELSE Ok([reg |-> c.id, as_type |-> as_type]),
     heap |-> [c.heap EXCEPT ![c.id] = a.registry],
     handlers |-> List(a.items)]

\* object_hook, handlers given: the loop on the copy c
Resolve(c, handlers, as_type) ==
    Resolved(c, ApplyHandlers(c.heap[c.id], handlers.v, Len(handlers.v)), as_type)

\* object_hook copying the default registry whether handlers are given or not
object_hook_copies(hp, handlers, as_type) ==
    IF Truthy(handlers)
    THEN Resolve(copy(hp, DefaultId, HookId), handlers, as_type)
    ELSE Resolve(copy(hp, DefaultId, HookId), List(<<>>), as_type)

\* object_hook(handlers, as_type): the hook returned (the id of the registry
\* it decodes with, and as_type) or the exception, the heap and handlers after it
object_hook(hp, handlers, as_type) ==
    IF Truthy(handlers)
    THEN Resolve(copy(hp, DefaultId, HookId), handlers, as_type)
    ELSE [res |-> Ok([reg |-> DefaultId, as_type |-> as_type]),
          heap |-> hp, handlers |-> handlers]

\* what a call of loader leaves: the outcome, the dispatcher's events, the
\* registry the call decoded with, the heap and handlers after it
Loaded(h, out) ==
    [res |-> out.res, ev |-> out.ev, reg |-> h.res.val.reg, resolved |-> TRUE,
     effective |-> h.heap[h.res.val.reg], heap |-> h.heap, handlers |-> h.handlers]

\* loader, h being what object_hook gave
Load(h, doc) ==
    IF h.res.st = "raise"
    THEN [res |-> h.res, ev |-> <<>>, reg |-> DefaultId, resolved |-> FALSE,
          effective |-> EmptyMap, heap |-> h.heap, handlers |-> h.handlers]
    ELSE Loaded(h, loads(doc, h.heap[h.res.val.reg], h.res.val.as_type))

\* loader(json_str, handlers=handlers, as_type=as_type)
loader(hp, doc, handlers, as_type) ==
    Load(object_hook(hp, handlers, as_type), doc)

---------------------------------------------------------------------------
(* The calls made: what is registered, and what is decoded *)

Reg(cls, h, type_name, schema) ==
    [cls |-> Class(cls), handler |-> h, type_name |-> type_name, schema |-> schema]

\* @from_object(handler, type_name, schema) class cls
Registrations ==
    { Reg("Person", NoneV, NoneV, NoneV),
      Reg("Person", Func("person_decoder"), NoneV, NoneV),
      Reg("Person", Func("coded_decoder"), NoneV, NoneV),
      Reg("Person", NoneV, NoneV, Schema("PersonSchema")),
      Reg("Person", Func("person_decoder"), Str("PersonObject"), NoneV),
      Reg("Team", NoneV, Str("PersonObject"), NoneV),
      Reg("Team", NoneV, NoneV, NoneV),
      Reg("Args", NoneV, NoneV, NoneV),
      Reg("Args", Func("person_decoder"), NoneV, NoneV) }

Typed(t, m) == Obj(<<<<"__type__", Str(t)>>>> \o m)

Shawn == <<<<"first_name", Str("Shawn")>>, <<"last_name", Str("Adams")>>>>
Bob == <<<<"first_name", Str("bob")>>, <<"last_name", Str("smith")>>>>

\* objects with no object inside and no "__type__"
FlatDocs ==
    { Obj(Bob),
      Obj(<<<<"last_name", Str("smith")>>, <<"gender", Str("male")>>>>),
      Obj(<<<<"leader", Str("bob")>>, <<"mascot", Str("owl")>>>>) }

TypedDocs ==
    { Typed("Person", Shawn),
      Typed("Person", Shawn \o <<<<"gender", Str("male")>>>>),
      Typed("Person", Shawn \o <<<<"gender", Str("f")>>>>),
      Typed("Person", <<<<"first_name", Str("Shawn")>>>>),
      Typed("Person", <<<<"gender", Str("male")>>>>),
      Typed("PersonObject", Shawn),
      Typed("Jedi", <<<<"name", Str("Luke")>>>>),
      Typed("Team", <<<<"leader", Typed("Person", Bob)>>>>),
      Typed("Team", <<<<"leader", Obj(Bob)>>, <<"name", Str("B")>>>>),
      Typed("Team", <<<<"name", Str("B")>>>>) }

NestedDocs ==
    { List(<<Obj(Bob), Obj(<<<<"first_name", Str("jane")>>>>)>>),
      Obj(<<<<"leader", Typed("Jedi", Bob)>>>>) }

Docs == FlatDocs \cup TypedDocs \cup NestedDocs

Handlers ==
    { NoneV,
      List(<<>>),
      List(<<<<"Person", [handler |-> Func("person_decoder")]>>>>),
      List(<<<<"Person", [schema |-> Schema("PersonSchema")]>>>>),
      List(<<<<"Person", [cls |-> Class("Person"),
                          handler |-> Func("person_decoder")]>>>>),
      List(<<<<"PersonObject", [cls |-> Class("Person"),
                                handler |-> Func("person_decoder")]>>>>),
      List(<<<<"Team", [cls |-> Class("Team")]>>>>),
      List(<<<<"Team", [cls |-> Class("Team"), handler |-> NoneV]>>>>),
      List(<<<<"Person", [schema |-> Schema("StrictSchema")]>>>>) }

AsTypes == {Str("Person"), Str("Team")}

\* loader(doc, handlers=handlers, as_type=as_type)
\* the documents decoded with handlers given
HandlersDocs ==
    { Typed("Person", Shawn),
      Typed("Person", <<<<"first_name", Str("Shawn")>>>>),
      Typed("PersonObject", Shawn),
      Typed("Team", <<<<"leader", Typed("Person", Bob)>>>>) }

Calls ==
    (Docs \X {NoneV} \X {NoneV})
        \cup (HandlersDocs \X (Handlers \ {NoneV}) \X {NoneV})
        \cup ((FlatDocs \cup NestedDocs) \X {NoneV} \X AsTypes)

\* the values _datetime is called on: None, texts in the format, texts that
\* are not (month 13, no time, the 30th of February), an int and a list
Timestamps ==
    { NoneV,
      Str(<<"2", "0", "1", "1", "-", "0", "5", "-", "1", "7", "T",
            "1", "9", ":", "3", "0", ":", "0", "0">>),
      Str(<<"2", "0", "1", "2", "-", "2", "-", "2", "9", "T",
            "7", ":", "5", ":", "9">>),
      Str(<<"2", "0", "1", "1", "-", "1", "3", "-", "0", "1", "T",
            "0", "0", ":", "0", "0", ":", "0", "0">>),
      Str(<<"2", "0", "1", "1", "-", "0", "5", "-", "1", "7">>),
      Str(<<"2", "0", "1", "1", "-", "0", "2", "-", "3", "0", "T",
            "1", "0", ":", "0", "0", ":", "0", "0">>),
      [k |-> "int", v |-> 5],
      List(<<>>) }

---------------------------------------------------------------------------
(* The program: registrations through from_object, clear, and loader *)

Init ==
    /\ heap = [id \in {DefaultId, HookId} |-> EmptyMap]
    /\ last = [op |-> "init"]
    /\ copies = {}
    /\ hook = NoneV

\* from_object's wrapper, made being handler or get_jsonweb_handler(cls)
Register(r, made) ==
    /\ heap' = IF made.st = "raise" THEN heap
               ELSE [heap EXCEPT ![DefaultId] =
                        add_handler(heap[DefaultId], r.cls, made.val,
                                    r.type_name, r.schema)]
    /\ last' = [op |-> "from_object", reg |-> r, made |-> made,
                before |-> heap[DefaultId]]
    /\ copies' = copies
    /\ hook' = hook

\* from_object(handler, type_name, schema)(cls): wrapper
FromObject(r) ==
    IF Truthy(r.handler)
    THEN Register(r, Ok(r.handler))
    ELSE Register(r, get_jsonweb_handler(r.cls))

\* _default_object_handlers.clear()
Clear ==
    /\ heap' = [heap EXCEPT ![DefaultId] = clear(heap[DefaultId])]
    /\ last' = [op |-> "clear", before |-> heap[DefaultId]]
    /\ copies' = copies
    /\ hook' = hook

\* what a call of loader leaves; the registry it allocated is dropped
Returned(doc, handlers, as_type, r) ==
    /\ heap' = [r.heap EXCEPT ![HookId] = EmptyMap]
    /\ last' = [op |-> "loader", doc |-> doc, handlers |-> handlers,
                as_type |-> as_type, res |-> r.res, ev |-> r.ev,
                reg |-> r.reg, resolved |-> r.resolved,
                effective |-> r.effective, handlers_after |-> r.handlers,
                before |-> heap[DefaultId]]
    /\ copies' = copies
    /\ hook' = hook

\* loader(json_str, handlers=handlers, as_type=as_type)
Loader(doc, handlers, as_type) ==
    Returned(doc, handlers, as_type, loader(heap, doc, handlers, as_type))

\* ObjectHook(handlers)._datetime(dt)
Datetime(dt) ==
    /\ heap' = heap
    /\ last' = [op |-> "_datetime", dt |-> dt, res |-> _datetime(dt)]
    /\ copies' = copies
    /\ hook' = hook

Next ==
    \/ \E r \in Registrations : FromObject(r)
    \/ Clear
    \/ \E c \in Calls : Loader(c[1], c[2], c[3])
    \/ \E dt \in Timestamps : Datetime(dt)

Spec == Init /\ [][Next]_vars

---------------------------------------------------------------------------
(* The registry on its own: add_handler, update_handler, set and clear on   *)
(* _default_object_handlers and on a copy() of it                           *)

GenPerson == get_jsonweb_handler(Class("Person")).val
GenTeam == get_jsonweb_handler(Class("Team")).val

\* add_handler(cls, handler, type_name, schema)
Adds ==
    { Reg("Person", GenPerson, NoneV, Schema("PersonSchema")),
      Reg("Person", Func("person_decoder"), NoneV, NoneV),
      Reg("Team", GenTeam, NoneV, NoneV) }

\* update_handler(name, **fields)
Updates ==
    { <<"Person", [handler |-> Func("person_decoder")]>>,
      <<"Person", [schema |-> Schema("PersonSchema")]>>,
      <<"Person", [schema |-> NoneV]>>,
      <<"Team", [cls |-> Class("Person"), handler |-> GenPerson]>> }

\* set(name, handler_tuple)
Sets ==
    { <<"Team", <<Func("person_decoder"), Class("Team"), NoneV>>>> }

\* the registries the caller holds
Held == {DefaultId} \cup copies

\* registry.add_handler(r.cls, r.handler, r.type_name, r.schema)
RegAdd(id, r) ==
    /\ heap' = [heap EXCEPT ![id] =
                   add_handler(heap[id], r.cls, r.handler, r.type_name, r.schema)]
    /\ last' = [op |-> "add_handler", id |-> id, reg |-> r, res |-> Ok(NoneV),
                before |-> heap]
    /\ copies' = copies
    /\ hook' = hook

\* registry.update_handler(name, **fields), u being what it gave
RegUpdated(id, name, fields, u) ==
    /\ heap' = [heap EXCEPT ![id] = u.handlers]
    /\ last' = [op |-> "update_handler", id |-> id, name |-> name,
                fields |-> fields, res |-> u.res, before |-> heap]
    /\ copies' = copies
    /\ hook' = hook

\* registry.update_handler(name, **fields)
RegUpdate(id, name, fields) ==
    RegUpdated(id, name, fields,
               update_handler(heap[id], name, Kw(fields, "cls"),
                              Kw(fields, "handler"), Kw(fields, "schema")))

\* registry.set(name, handler_tuple)
RegSet(id, name, handler_tuple) ==
    /\ heap' = [heap EXCEPT ![id] = set(heap[id], name, handler_tuple)]
    /\ last' = [op |-> "set", id |-> id, name |-> name,
                handler_tuple |-> handler_tuple, res |-> Ok(NoneV), before |-> heap]
    /\ copies' = copies
    /\ hook' = hook

\* registry.clear()
RegClear(id) ==
    /\ heap' = [heap EXCEPT ![id] = clear(heap[id])]
    /\ last' = [op |-> "clear", id |-> id, res |-> Ok(NoneV), before |-> heap]
    /\ copies' = copies
    /\ hook' = hook

\* _default_object_handlers.copy(), c being the heap after it and the id it gave
RegCopied(c) ==
    /\ heap' = c.heap
    /\ last' = [op |-> "copy", id |-> c.id, res |-> Ok(NoneV), before |-> heap]
    /\ copies' = {c.id}
    /\ hook' = hook

\* _default_object_handlers.copy()
RegCopy == RegCopied(copy(heap, DefaultId, HookId))

NextRegistry ==
    \/ \E id \in Held, r \in Adds : RegAdd(id, r)
    \/ \E id \in Held, u \in Updates : RegUpdate(id, u[1], u[2])
    \/ \E id \in Held, t \in Sets : RegSet(id, t[1], t[2])
    \/ \E id \in Held : RegClear(id)
    \/ RegCopy

SpecRegistry == Init /\ [][NextRegistry]_vars

---------------------------------------------------------------------------
(* A hook kept by the caller: my_obj_hook = object_hook(handlers), then     *)
(* json.loads(json_str, object_hook=my_obj_hook) any number of times, with  *)
(* registrations and clear() in between. The registry a kept hook was given *)
(* stays allocated; hook.taken is that registry as object_hook left it.     *)

HookRegistrations ==
    { Reg("Person", NoneV, NoneV, NoneV),
      Reg("Person", Func("person_decoder"), NoneV, NoneV),
      Reg("Team", NoneV, NoneV, NoneV) }

HookHandlers ==
    { NoneV,
      List(<<>>),
      List(<<<<"Person", [handler |-> Func("person_decoder")]>>>>),
      List(<<<<"Person", [cls |-> Class("Person"),
                          handler |-> Func("person_decoder")]>>>>) }

HookDocs ==
    { Typed("Person", Shawn),
      Typed("Team", <<<<"leader", Typed("Person", Bob)>>>>) }

\* my_obj_hook = object_hook(handlers), h being what object_hook gave; when it
\* raises, my_obj_hook is what it was
HookMade(handlers, h) ==
    /\ heap' = IF h.res.st = "raise" THEN heap ELSE h.heap
    /\ hook' = IF h.res.st = "raise" THEN hook
               ELSE [k |-> "hook", reg |-> h.res.val.reg,
                     as_type |-> h.res.val.as_type, handlers |-> handlers,
                     taken |-> h.heap[h.res.val.reg]]
    /\ last' = [op |-> "object_hook", handlers |-> handlers, res |-> h.res]
    /\ copies' = copies

\* my_obj_hook = object_hook(handlers)
MakeHook(handlers) ==
    HookMade(handlers, object_hook(heap, handlers, NoneV))

\* json.loads(json_str, object_hook=my_obj_hook), out being what it gave
HookUsed(doc, out) ==
    /\ hook # NoneV
    /\ last' = [op |-> "loads", doc |-> doc, res |-> out.res, ev |-> out.ev,
                before |-> heap[DefaultId]]
    /\ UNCHANGED <<heap, hook, copies>>

\* json.loads(json_str, object_hook=my_obj_hook)
UseHook(doc) ==
    /\ hook # NoneV
    /\ HookUsed(doc, loads(doc, heap[hook.reg], hook.as_type))

NextHook ==
    \/ \E r \in HookRegistrations : FromObject(r)
    \/ Clear
    \/ \E handlers \in HookHandlers : MakeHook(handlers)
    \/ \E doc \in HookDocs : UseHook(doc)

SpecHook == Init /\ [][NextHook]_vars

---------------------------------------------------------------------------
(* Properties *)

\* the type names in use
Names == {"Person", "Team", "Args", "PersonObject", "Jedi"}

\* the parameters of a class's __init__ as declared, self left out
Params(name) == Tail(ClassInit(name).args)

\* those with no default, in the order declared
RequiredFields(name) ==
    SubSeq(Params(name), 1, Len(Params(name)) - Len(ClassInit(name).defaults))

\* those with a default
OptionalFields(name) ==
    {Params(name)[i] :
        i \in (Len(Params(name)) - Len(ClassInit(name).defaults) + 1)..Len(Params(name))}

\* the default declared for the parameter f
DeclaredDefault(name, f) ==
    ClassInit(name).defaults[
        IndexOf(Params(name), f)
            - (Len(Params(name)) - Len(ClassInit(name).defaults))]

\* the first of the fields that obj lacks
FirstAbsent(fields, obj) ==
    fields[CHOOSE i \in 1..Len(fields) :
              /\ fields[i] \notin DOMAIN obj.v
              /\ \A j \in 1..(i - 1) : fields[j] \in DOMAIN obj.v]

\* the event is a call of the handler generated for the entry's own class
Generated(e) ==
    /\ e.ev = "factory"
    /\ get_jsonweb_handler(e.cls).st = "ok"
    /\ e.factory = get_jsonweb_handler(e.cls).val

\* v is a dict still carrying a type name the registry knows
RawTyped(v, registry) ==
    /\ v.k = "dict"
    /\ "__type__" \in DOMAIN v.v
    /\ v.v["__type__"].k = "str"
    /\ v.v["__type__"].v \in DOMAIN registry

\* the last call was loader with one item in handlers
OneOverride ==
    /\ last.op = "loader"
    /\ Truthy(last.handlers)
    /\ Len(last.handlers.v) = 1

\* C1: a loader call given handlers, whether it returns or raises, leaves the
\* default registry as it was: a hook made without handlers afterwards finds,
\* under every type name, the handler tuple that was there before the call.
C1_CallIsolation ==
    (last.op = "loader" /\ Truthy(last.handlers)) =>
        /\ heap[DefaultId] = last.before
        /\ \A d \in Names :
              get(heap[object_hook(heap, NoneV, NoneV).res.val.reg], d)
                  = get(last.before, d)

\* a call whose handlers redefined a type name the default registry has
C1_Witness ==
    /\ OneOverride
    /\ last.resolved
    /\ last.handlers.v[1][1] \in DOMAIN last.before
    /\ last.effective[last.handlers.v[1][1]] # last.before[last.handlers.v[1][1]]

\* C2: when the handler generated for a class is called on an object that
\* lacks a required field (an entry's schema, when it has one, having passed
\* the object), the call of loader raises ObjectAttributeError (DATA_DECODE_ERROR,
\* MISSING_ATTRIBUTE) with the object's "__type__" as obj_type and the first
\* absent required field, in the order declared, as attribute; nothing is built.
C2_MissingRequired ==
    last.op = "loader" =>
        \A i \in 1..Len(last.ev) :
            (/\ Generated(last.ev[i])
             /\ \E f \in 1..Len(RequiredFields(last.ev[i].cls.name)) :
                   RequiredFields(last.ev[i].cls.name)[f] \notin DOMAIN last.ev[i].obj.v)
            => /\ i = Len(last.ev)
               /\ last.res.st = "raise"
               /\ last.res.exc =
                     [type |-> "ObjectAttributeError", kind |-> "DATA_DECODE_ERROR",
                      sub |-> "MISSING_ATTRIBUTE",
                      obj_type |-> last.ev[i].obj.v["__type__"],
                      attribute |-> FirstAbsent(RequiredFields(last.ev[i].cls.name),
                                                last.ev[i].obj)]

\* an object lacking both required fields of Person: the first one is named
C2_Witness ==
    /\ last.op = "loader"
    /\ Len(last.ev) > 0
    /\ Generated(last.ev[Len(last.ev)])
    /\ last.ev[Len(last.ev)].cls.name = "Person"
    /\ {"first_name", "last_name"} \cap DOMAIN last.ev[Len(last.ev)].obj.v = {}
    /\ last.res.st = "raise"
    /\ last.res.exc.type = "ObjectAttributeError"
    /\ last.res.exc.attribute = "first_name"

\* C3: when the dispatcher sees an object whose "__type__" is a name the
\* registry it decodes with does not have, the call raises ObjectNotFoundError
\* (OBJECT_NOT_FOUND) carrying that name, and the object is the last thing the
\* dispatcher did: no schema validated it and no handler was called on it.
C3_UnknownDiscriminator ==
    (last.op = "loader" /\ last.resolved) =>
        \A i \in 1..Len(last.ev) :
            (/\ last.ev[i].ev = "typed"
             /\ last.ev[i].obj.v["__type__"].k = "str"
             /\ last.ev[i].obj.v["__type__"].v \notin DOMAIN last.effective)
            => /\ i = Len(last.ev)
               /\ last.res.st = "raise"
               /\ last.res.exc =
                     [type |-> "ObjectNotFoundError", kind |-> "DATA_DECODE_ERROR",
                      sub |-> "OBJECT_NOT_FOUND",
                      obj_type |-> last.ev[i].obj.v["__type__"]]

\* Person is registered, under another name than the one the object carries
C3_Witness ==
    /\ last.op = "loader"
    /\ last.resolved
    /\ last.res.st = "raise"
    /\ last.res.exc.type = "ObjectNotFoundError"
    /\ last.res.exc.obj_type = Str("PersonObject")
    /\ "Person" \in DOMAIN last.effective
    /\ last.effective["Person"][2] = Class("Person")

\* C4: when the handler generated for a class is called on the object of the
\* document and the object has every required field (an entry's schema, when
\* it has one, having passed the object), loader returns an instance of the
\* class in which each required field is the object's value, each optional
\* field the object has is the object's value, and each optional field it
\* lacks is the default declared for that very field.
C4_RoundTrip ==
    (last.op = "loader" /\ last.doc.k = "obj" /\ Len(last.ev) > 0) =>
        ((/\ Generated(last.ev[Len(last.ev)])
          /\ \A f \in 1..Len(RequiredFields(last.ev[Len(last.ev)].cls.name)) :
                RequiredFields(last.ev[Len(last.ev)].cls.name)[f]
                    \in DOMAIN last.ev[Len(last.ev)].obj.v)
         => /\ last.res.st = "ok"
            /\ last.res.val.k = "inst"
            /\ last.res.val.cls = last.ev[Len(last.ev)].cls.name
            /\ \A f \in 1..Len(RequiredFields(last.res.val.cls)) :
                  last.res.val.attrs[RequiredFields(last.res.val.cls)[f]]
                      = last.ev[Len(last.ev)].obj.v[RequiredFields(last.res.val.cls)[f]]
            /\ \A f \in OptionalFields(last.res.val.cls) :
                  last.res.val.attrs[f]
                      = IF f \in DOMAIN last.ev[Len(last.ev)].obj.v
                        THEN last.ev[Len(last.ev)].obj.v[f]
                        ELSE DeclaredDefault(last.res.val.cls, f))

\* a Team decoded from an object that gives name and leaves mascot out
C4_Witness ==
    /\ last.op = "loader"
    /\ last.doc.k = "obj"
    /\ Len(last.ev) > 0
    /\ Generated(last.ev[Len(last.ev)])
    /\ last.res.st = "ok"
    /\ last.res.val.k = "inst"
    /\ last.res.val.cls = "Team"
    /\ "name" \in DOMAIN last.ev[Len(last.ev)].obj.v
    /\ "mascot" \notin DOMAIN last.ev[Len(last.ev)].obj.v
    /\ last.res.val.attrs["name"] = Str("B")
    /\ last.res.val.attrs["mascot"] = NoneV

\* C5: whenever a handler is called on an object, no member of the object (and
\* no item of a list member) is a dict still carrying a type name the registry
\* of the call has: every nested object went through the dispatcher first.
C5_BottomUp ==
    (last.op = "loader" /\ last.resolved) =>
        \A i \in 1..Len(last.ev) :
            last.ev[i].ev = "factory" =>
                \A f \in DOMAIN last.ev[i].obj.v :
                    /\ ~RawTyped(last.ev[i].obj.v[f], last.effective)
                    /\ last.ev[i].obj.v[f].k = "list" =>
                          \A j \in 1..Len(last.ev[i].obj.v[f].v) :
                              ~RawTyped(last.ev[i].obj.v[f].v[j], last.effective)

\* a Team built from an object whose leader is already a Person instance
C5_Witness ==
    /\ last.op = "loader"
    /\ last.res.st = "ok"
    /\ last.res.val.k = "inst"
    /\ last.res.val.cls = "Team"
    /\ Len(last.ev) = 4
    /\ last.ev[2].ev = "factory"
    /\ last.ev[4].ev = "factory"
    /\ last.ev[4].obj.v["leader"].k = "inst"
    /\ last.ev[4].obj.v["leader"].cls = "Person"
    /\ last.res.val.attrs["leader"] = last.ev[4].obj.v["leader"]

\* C6: when handlers names a type the default registry lacks and gives a
\* class and a handler, the registry of the call has the entry under that very
\* name, every other name has what the default registry has, and an object of
\* that type is built by the handler given.
C6_OverrideAddsUnderName ==
    (/\ OneOverride
     /\ last.handlers.v[1][1] \notin DOMAIN last.before
     /\ {"cls", "handler"} \subseteq DOMAIN last.handlers.v[1][2]
     /\ Truthy(last.handlers.v[1][2]["handler"]))
    => /\ last.resolved
       /\ last.handlers.v[1][1] \in DOMAIN last.effective
       /\ last.effective[last.handlers.v[1][1]]
             = <<last.handlers.v[1][2]["handler"], last.handlers.v[1][2]["cls"],
                 Kw(last.handlers.v[1][2], "schema")>>
       /\ \A d \in Names \ {last.handlers.v[1][1]} :
             get(last.effective, d) = get(last.before, d)
       /\ (/\ last.doc.k = "obj"
           /\ Len(last.doc.m) > 0
           /\ last.doc.m[1] = <<"__type__", Str(last.handlers.v[1][1])>>
           /\ ~(last.res.st = "raise" /\ last.res.exc.type = "ObjectNotFoundError"))
          => /\ Len(last.ev) > 0
             /\ last.ev[Len(last.ev)].ev = "factory"
             /\ last.ev[Len(last.ev)].factory = last.handlers.v[1][2]["handler"]
       /\ (/\ last.doc.k = "obj"
           /\ Len(last.doc.m) > 0
           /\ last.doc.m[1] = <<"__type__", Str(last.handlers.v[1][1])>>)
          => ~(last.res.st = "raise" /\ last.res.exc.type = "ObjectNotFoundError")

\* C7: when handlers names a type the default registry lacks and gives a
\* class and no handler, object_hook returns, and the registry of the call has
\* an entry for the class with the handler generated from its __init__.
C7_OverrideGeneratesHandler ==
    (/\ OneOverride
     /\ last.handlers.v[1][1] \notin DOMAIN last.before
     /\ "cls" \in DOMAIN last.handlers.v[1][2]
     /\ "handler" \notin DOMAIN last.handlers.v[1][2])
    => /\ last.resolved
       /\ \E n \in DOMAIN last.effective :
             /\ last.effective[n][1]
                   = get_jsonweb_handler(last.handlers.v[1][2]["cls"]).val
             /\ last.effective[n][2] = last.handlers.v[1][2]["cls"]

\* the name from_object registers r under
NameOf(r) == IF Truthy(r.type_name) THEN r.type_name.v ELSE r.cls.name

\* C8: from_object on a name that already has an entry (the handler given, or
\* the class's __init__ naming a parameter to generate one from) does not
\* raise; the entry is then the new handler, class and schema, nothing of the
\* old entry staying, get returns it, and every other name keeps its entry.
C8_RegistrationOverwrite ==
    (/\ last.op = "from_object"
     /\ NameOf(last.reg) \in DOMAIN last.before
     /\ (Truthy(last.reg.handler) \/ Len(Params(last.reg.cls.name)) > 0))
    => /\ last.made.st = "ok"
       /\ get(heap[DefaultId], NameOf(last.reg))
             = <<IF Truthy(last.reg.handler) THEN last.reg.handler
                 ELSE JsonWebObjectHandler(
                          RequiredFields(last.reg.cls.name),
                          IF OptionalFields(last.reg.cls.name) = {} THEN NoneV
                          ELSE List([i \in 1..Cardinality(OptionalFields(last.reg.cls.name)) |->
                                  <<Params(last.reg.cls.name)[Len(Params(last.reg.cls.name)) - i + 1],
                                    DeclaredDefault(last.reg.cls.name,
                                        Params(last.reg.cls.name)[Len(Params(last.reg.cls.name)) - i + 1])>>])),
                 last.reg.cls, last.reg.schema>>
       /\ \A d \in Names \ {NameOf(last.reg)} :
             get(heap[DefaultId], d) = get(last.before, d)

\* a registration with no schema over an entry that had one, and over an
\* entry of another handler
C8_Witness ==
    /\ last.op = "from_object"
    /\ last.made.st = "ok"
    /\ NameOf(last.reg) \in DOMAIN last.before
    /\ Truthy(last.before[NameOf(last.reg)][3])
    /\ last.before[NameOf(last.reg)][1] # heap[DefaultId][NameOf(last.reg)][1]
    /\ ~Truthy(last.reg.schema)
    /\ ~Truthy(heap[DefaultId][NameOf(last.reg)][3])

\* C9: copy() gives a registry with the source's entries and leaves the source
\* as it was; from then on add_handler, update_handler, set and clear on the
\* copy leave the source as it was, and on the source leave the copy as it was.
C9_CopyIndependence ==
    /\ last.op = "copy" =>
          /\ heap[last.id] = last.before[DefaultId]
          /\ heap[DefaultId] = last.before[DefaultId]
    /\ (last.op \in {"add_handler", "update_handler", "set", "clear"}
            /\ last.id \in copies) =>
          \A d \in Names :
              get(heap[DefaultId], d) = get(last.before[DefaultId], d)
    /\ (last.op \in {"add_handler", "update_handler", "set", "clear"}
            /\ last.id = DefaultId) =>
          \A c \in copies : \A d \in Names :
              get(heap[c], d) = get(last.before[c], d)

\* update_handler changed an entry of the copy, which the source still has
C9_Witness ==
    /\ last.op = "update_handler"
    /\ last.id \in copies
    /\ last.res.st = "ok"
    /\ heap[last.id][last.name] # last.before[last.id][last.name]
    /\ last.name \in DOMAIN heap[DefaultId]
    /\ heap[DefaultId][last.name] = last.before[last.id][last.name]

\* the flat object with "__type__" added
WithType(doc, as_type) == Obj(<<<<"__type__", as_type>>>> \o doc.m)

\* C10: for a registered type name and an object with no object inside and no
\* "__type__", loader with as_type gives what loader gives, with no as_type,
\* for the object with "__type__" added: the same instance or the same exception.
C10_AsTypeEquivalence ==
    (/\ last.op = "loader"
     /\ Truthy(last.as_type)
     /\ last.doc \in FlatDocs
     /\ last.resolved
     /\ last.as_type.v \in DOMAIN last.effective)
    => loader(heap, WithType(last.doc, last.as_type), last.handlers, NoneV).res
           = last.res

\* a Person decoded from the flat object with as_type
C10_Witness ==
    /\ last.op = "loader"
    /\ last.as_type = Str("Person")
    /\ last.doc = Obj(Bob)
    /\ last.res.st = "ok"
    /\ last.res.val.k = "inst"
    /\ last.res.val.cls = "Person"
    /\ last.res.val.attrs["first_name"] = Str("bob")

\* C11: in a call of loader with as_type, every object the dispatcher sees,
\* at the top, nested, in a list, or carrying another "__type__", is looked up
\* under as_type: none passes as a plain dict, none is looked up under its own
\* type name, and the handler called is the one of the entry under as_type.
C11_AsTypeEveryObject ==
    (last.op = "loader" /\ Truthy(last.as_type) /\ last.resolved) =>
        \A i \in 1..Len(last.ev) :
            /\ last.ev[i].ev # "plain"
            /\ last.ev[i].ev = "typed" => last.ev[i].obj.v["__type__"] = last.as_type
            /\ last.ev[i].ev = "factory" =>
                  /\ last.ev[i].obj_type = last.as_type
                  /\ last.ev[i].factory = last.effective[last.as_type.v][1]
                  /\ last.ev[i].cls = last.effective[last.as_type.v][2]

\* an object tagged Jedi inside an untagged one, both decoded as Person
C11_Witness ==
    /\ last.op = "loader"
    /\ last.as_type = Str("Person")
    /\ last.doc = Obj(<<<<"leader", Typed("Jedi", Bob)>>>>)
    /\ Len(last.ev) = 4
    /\ last.ev[1].obj.v["__type__"] = Str("Person")
    /\ last.ev[2].ev = "factory"
    /\ last.ev[2].cls = Class("Person")
    /\ last.ev[3].ev = "typed"
    /\ last.ev[3].obj.v["leader"].k = "inst"
    /\ last.ev[4].ev = "factory"

\* C12: in a call of loader with no as_type, an object with no "__type__" is
\* returned as it is: nothing is looked up, validated or called for it, it
\* raises nothing, and a document that is such an object with no object inside
\* decodes to the same keys and values, whatever the registry holds.
C12_UntypedPassThrough ==
    (last.op = "loader" /\ ~Truthy(last.as_type) /\ last.resolved) =>
        /\ \A i \in 1..Len(last.ev) :
              "__type__" \notin DOMAIN last.ev[i].obj.v =>
                  /\ last.ev[i].ev = "plain"
                  /\ i = Len(last.ev) => last.res.st = "ok"
                  /\ i < Len(last.ev) => last.ev[i + 1].ev \in {"plain", "typed"}
        /\ last.doc \in FlatDocs =>
              /\ last.res = Ok(Raw(last.doc))
              /\ last.ev = <<[ev |-> "plain", obj |-> Raw(last.doc)]>>
        /\ (last.doc = Typed("Team", <<<<"leader", Obj(Bob)>>, <<"name", Str("B")>>>>)
                /\ last.res.st = "ok") =>
              last.res.val.attrs["leader"] = Raw(Obj(Bob))

\* an untagged object decoded while Person, whose fields it has, is registered
C12_Witness ==
    /\ last.op = "loader"
    /\ ~Truthy(last.as_type)
    /\ last.doc = Obj(Bob)
    /\ "Person" \in DOMAIN last.effective
    /\ last.res = Ok(Dict([first_name |-> Str("bob"), last_name |-> Str("smith")]))

\* C13: from_object with no handler on a class whose __init__ names no
\* parameter but self raises JsonWebError when the class is decorated and
\* leaves the default registry as it was; with a handler given it returns and
\* the entry is there.
C13_GenerationFailure ==
    (last.op = "from_object" /\ Len(Params(last.reg.cls.name)) = 0) =>
        IF Truthy(last.reg.handler)
        THEN /\ last.made.st = "ok"
             /\ get(heap[DefaultId], NameOf(last.reg))
                   = <<last.reg.handler, last.reg.cls, last.reg.schema>>
        ELSE /\ last.made.st = "raise"
             /\ last.made.exc.type = "JsonWebError"
             /\ heap[DefaultId] = last.before

\* the failing registration of Args, made over the entry a registration with
\* a handler left
C13_Witness ==
    /\ last.op = "from_object"
    /\ last.reg = Reg("Args", NoneV, NoneV, NoneV)
    /\ last.made.st = "raise"
    /\ "Args" \in DOMAIN last.before
    /\ heap[DefaultId]["Args"] = <<Func("person_decoder"), Class("Args"), NoneV>>

\* C14: _datetime gives None for None and the datetime written for a text in
\* the format; for any other value, a text not in the format or not a text,
\* it raises an error of kind DATA_DECODE_ERROR and no other.
C14_TimestampOutcomes ==
    last.op = "_datetime" =>
        IF last.dt = NoneV
        THEN last.res = Ok(NoneV)
        ELSE IF strptime(last.dt).st = "ok"
        THEN last.res = strptime(last.dt)
        ELSE /\ last.res.st = "raise"
             /\ "kind" \in DOMAIN last.res.exc
             /\ last.res.exc.kind = "DATA_DECODE_ERROR"

\* the fields of the object a handler reads with obj[...]
FieldsRead(factory) ==
    CASE factory.k = "JsonWebObjectHandler" ->
            {factory.args[i] : i \in 1..Len(factory.args)}
      [] factory.k = "function" /\ factory.name = "person_decoder" ->
            {"first_name", "last_name"}
      [] factory.k = "function" /\ factory.name = "coded_decoder" ->
            {"first_name", "last_name", "gender"}
      [] OTHER -> {}

\* made is the failure of a handler that read a field obj does not have
MissingField(made, factory, obj) ==
    /\ made.st = "raise"
    /\ made.exc.type = "KeyError"
    /\ made.exc.key \in FieldsRead(factory)
    /\ made.exc.key \notin DOMAIN obj.v

\* C15: loader raises ObjectAttributeError only when the handler failed on a
\* field it reads and the object lacks; any other exception of the handler or
\* of the class's __init__, a KeyError that is not about the object's fields
\* among them, reaches the caller as it was raised.
C15_OnlyMissingWrapped ==
    last.op = "loader" =>
        \A i \in 1..Len(last.ev) :
            (last.ev[i].ev = "factory" /\ i = Len(last.ev)) =>
                /\ (last.res.st = "raise"
                        /\ last.res.exc.type = "ObjectAttributeError") =>
                      MissingField(
                          CallHandler(last.ev[i].factory, last.ev[i].cls, last.ev[i].obj),
                          last.ev[i].factory, last.ev[i].obj)
                /\ (/\ CallHandler(last.ev[i].factory, last.ev[i].cls,
                                   last.ev[i].obj).st = "raise"
                    /\ ~MissingField(
                          CallHandler(last.ev[i].factory, last.ev[i].cls, last.ev[i].obj),
                          last.ev[i].factory, last.ev[i].obj)) =>
                      last.res = CallHandler(last.ev[i].factory, last.ev[i].cls,
                                             last.ev[i].obj)

Supplied(fields, key) == key \in DOMAIN fields /\ fields[key] # NoneV

\* C17: update_handler on a name the registry has puts each of handler, cls
\* and schema that the call gives in the entry, keeps the entry's value for
\* each one it does not give, and leaves every other name as it was; on a name
\* the registry does not have it raises KeyError and the registry is as it was.
C17_PartialUpdate ==
    last.op = "update_handler" =>
        IF last.name \in DOMAIN last.before[last.id]
        THEN /\ last.res = Ok(NoneV)
             /\ DOMAIN heap[last.id] = DOMAIN last.before[last.id]
             /\ heap[last.id][last.name] =
                   <<IF Supplied(last.fields, "handler") THEN last.fields["handler"]
                     ELSE last.before[last.id][last.name][1],
                     IF Supplied(last.fields, "cls") THEN last.fields["cls"]
                     ELSE last.before[last.id][last.name][2],
                     IF Supplied(last.fields, "schema") THEN last.fields["schema"]
                     ELSE last.before[last.id][last.name][3]>>
             /\ \A d \in Names \ {last.name} :
                   get(heap[last.id], d) = get(last.before[last.id], d)
        ELSE /\ last.res = Raise(KeyError(last.name))
             /\ heap[last.id] = last.before[last.id]

\* a schema given for Person: the handler and the class stay, Team is there
C17_Witness ==
    /\ last.op = "update_handler"
    /\ last.name = "Person"
    /\ last.fields = [schema |-> Schema("PersonSchema")]
    /\ "Team" \in DOMAIN heap[last.id]
    /\ "Person" \in DOMAIN last.before[last.id]
    /\ last.before[last.id]["Person"] = <<Func("person_decoder"), Class("Person"), NoneV>>
    /\ heap[last.id]["Person"]
          = <<Func("person_decoder"), Class("Person"), Schema("PersonSchema")>>

\* every entry of the registry has a name, a class and a handler
EntriesWhole(registry) ==
    \A name \in DOMAIN registry :
        /\ name # ""
        /\ registry[name][2] # NoneV
        /\ registry[name][1] # NoneV

\* C18: after any registrations, clears and calls of loader, every entry of
\* the default registry, and of the registry a call of loader decoded with,
\* has a non-empty name, a class that is not None and a handler that is not
\* None, also when the call's handlers leave a handler out or give None.
C18_EntriesWhole ==
    /\ EntriesWhole(heap[DefaultId])
    /\ (last.op = "loader" /\ last.resolved) => EntriesWhole(last.effective)

\* C20: object_hook leaves the handlers it is given as they were, each
\* handler_dict included, so loader called again with the same handlers and
\* the same text gives the same instance or the same exception.
C20_HandlersNotConsumed ==
    (last.op = "loader" /\ Truthy(last.handlers)) =>
        /\ last.handlers_after = last.handlers
        /\ loader(heap, last.doc, last.handlers_after, last.as_type).res = last.res

\* C19: a hook made with no handlers, or empty ones, decodes with the default
\* registry as it is when the hook is used, whatever was registered or
\* cleared since it was made; a hook made with handlers decodes with the
\* registry object_hook left it, whatever is registered or cleared afterwards
\* and however many times it is used.
C19_AliasSnapshot ==
    hook # NoneV =>
        /\ Truthy(hook.handlers) => heap[hook.reg] = hook.taken
        /\ ~Truthy(hook.handlers) => heap[hook.reg] = heap[DefaultId]
        /\ last.op = "loads" =>
              last.res = loads(last.doc,
                               IF Truthy(hook.handlers) THEN hook.taken
                               ELSE heap[DefaultId],
                               hook.as_type).res

\* a hook made with handlers still decodes a Person after clear() emptied the
\* default registry
C19_Witness ==
    /\ hook # NoneV
    /\ Truthy(hook.handlers)
    /\ last.op = "loads"
    /\ heap[DefaultId] = EmptyMap
    /\ "Person" \in DOMAIN hook.taken
    /\ last.res.st = "ok"
    /\ last.res.val.k = "inst"
    /\ last.res.val.cls = "Person"

====
